---- MODULE Spec2Model ----
(***************************************************************************)
(* Model of os/src/memory/mapping/mapping.rs: the Mapping (address space)  *)
(* of the kernel, its three-level radix page table, the frames it takes    *)
(* from the shared FRAME_ALLOCATOR, and the satp register it programs.     *)
(*                                                                         *)
(* Physical memory is modelled frame by frame: a table node is the content *)
(* of one physical frame, and an entry names its child by physical page    *)
(* number, so that a table reached through a stale entry is read as the    *)
(* frame holds it at that moment.                                          *)
(***************************************************************************)
EXTENDS Integers, Sequences, FiniteSets, TLC

(* ------------------------------ bounds -------------------------------- *)
\* entries per table node (512 on the hardware)
Fanout == 2
\* physical frames the allocator manages
NumFrames == 6
\* address spaces that can exist at once
NumSpaces == 2
\* longest page range a caller passes
MaxRangeLen == 2
\* calls made in one behaviour
MaxCalls == 3
\* new_kernel calls made in one behaviour (they come first)
MaxKernelCalls == 1
\* highest page number a boundary address of the kernel layout takes
MaxKernelPage == 6
\* frames of the allocator when memory is scarce
ScarceFrames == 3
\* free frames when threads run concurrently
ConcFree == 3

(* ------------------------- program constants -------------------------- *)
\* levels of the radix tree: two interior levels and the terminal one
Levels == 3
\* the Sv39 mode tag of satp
Sv39Mode == 8
\* bytes per page
PAGE_SIZE == 4096

RECURSIVE Pow(_, _)
Pow(b, n) == IF n = 0 THEN 1 ELSE b * Pow(b, n - 1)

NumPages == Pow(Fanout, Levels)
VPages == 0 .. (NumPages - 1)
Frames == 1 .. NumFrames
PhysPages == VPages \cup Frames
Spaces == 1 .. NumSpaces
Slots == 0 .. (Fanout - 1)

SeqRange(s) == {s[i] : i \in 1 .. Len(s)}

(* ------------------------------ entries ------------------------------- *)
VALID == {"V"}
READABLE == {"R"}
WRITABLE == {"W"}
EXECUTABLE == {"X"}

\* the flag sets callers pass in
FlagChoices == {VALID \cup READABLE, VALID \cup READABLE \cup WRITABLE}

\* PageTableEntry::new(ppn, flags): the entry word holds both
PageTableEntry(ppn, flags) == [ppn |-> ppn, flags |-> flags]
\* the all-zero entry word
Empty == PageTableEntry(0, {})
is_empty(e) == e = Empty

\* PageTable::zero_init, done by PageTableTracker::new
ZeroTable == [i \in Slots |-> Empty]

\* vpn.levels(): the index of the vpn at each level, most significant first
levels(vpn) == [k \in 1 .. Levels |-> (vpn \div Pow(Fanout, Levels - k)) % Fanout]

\* PhysicalPageNumber::from(vpn) of the linear mapping
LinearPpn(vpn) == vpn

(* ------------------------------- state -------------------------------- *)
VARIABLES
    mem,          \* content of every physical page, read as a table node
    FRAME_ALLOCATOR, \* the allocator: its free pool and the frames handed out so far
    page_tables,  \* per Mapping: frames of the owned PageTableTrackers, root first
    segments,     \* per Mapping: the recorded Segments
    satp,         \* the translation-control register of the hart
    last,         \* the most recent call: operation, arguments, result, and
                  \* (bound) the physical pages of the Leaf entries it wrote,
                  \* for new_kernel the results of the calls it made
    ncalls,       \* calls made so far
    alloc_leaves, \* history: <<space, vpn, ppn>> of every Leaf map_alloc_one bound
    nmaps,        \* history: per Mapping, the map_linear / map_alloc calls made on it
    nfailed,      \* history: per Mapping, how many of them returned an error
    layout,       \* link-time boundary addresses used by new_kernel
    lock,         \* the thread inside FRAME_ALLOCATOR.lock(), 0 when it is free
    thread        \* per Mapping: where the thread working on it stands in its call

vars == <<mem, FRAME_ALLOCATOR, page_tables, segments, satp, last, ncalls,
          alloc_leaves, nmaps, nfailed, layout, lock, thread>>

\* frames held by the Framed segments of some Mapping
SegFrames(segs) ==
    UNION {UNION {SeqRange(segs[sp][i].frames) : i \in 1 .. Len(segs[sp])} : sp \in Spaces}

(* Memory the code has not written holds whatever boot left there: a slot  *)
(* that was never written reads as any entry. A frame handed to a Framed   *)
(* segment belongs to the segment's user, who writes it at will: all its   *)
(* slots read as any entry, and what the walk stores there does not last.  *)
Unknown == PageTableEntry(0, {"?"})
Garbage == [i \in Slots |-> Unknown]

ForeignEntries == {Empty} \cup {PageTableEntry(p, VALID) : p \in PhysPages}

\* page_table.entries[i] read through the physical address of page p
Entries(m, df, p, i) ==
    IF p \in df \/ m[p][i] = Unknown THEN ForeignEntries ELSE {m[p][i]}

\* page_table.entries[i] = e
Store(m, df, p, i, e) == IF p \in df THEN m ELSE [m EXCEPT ![p][i] = e]

(* --------------------------- frame allocator --------------------------- *)
(* The allocator state fa = [free, used]: the free pool, and the frames it *)
(* has handed out at least once. Frames never handed out are taken in      *)
(* ascending order; among the frames that came back, alloc may pick any.   *)
SetMin(S) == CHOOSE x \in S : \A y \in S : x <= y

\* FRAME_ALLOCATOR.lock().alloc(): the frames the call may return
AllocChoices(fa) ==
    (fa.free \cap fa.used)
      \cup (IF fa.free \ fa.used = {} THEN {} ELSE {SetMin(fa.free \ fa.used)})

\* the allocator after alloc() returned f
Alloc(fa, f) == [free |-> fa.free \ {f}, used |-> fa.used \cup {f}]

\* drop of FrameTracker handles: the frames return to the free pool
Dealloc(fa, fs) == [fa EXCEPT !.free = fa.free \cup fs]

\* PageTableTracker::new(frame): the frame is zeroed and becomes a table node
PageTableTracker_new(m, f) == [m EXCEPT ![f] = ZeroTable]

(* ------------------------------- lookup -------------------------------- *)
\* the entries the walk for vpn can end in, descending as map_one descends;
\* an empty interior slot ends the walk with Empty
RECURSIVE WalkFrom(_, _, _, _, _)
WalkFrom(m, df, pt, vpn, k) ==
    LET i == levels(vpn)[k] IN
    IF k = Levels
    THEN Entries(m, df, pt, i)
    ELSE UNION { IF is_empty(e) THEN {Empty} ELSE WalkFrom(m, df, e.ppn, vpn, k + 1)
                 : e \in Entries(m, df, pt, i) }

\* the targets of the non-empty interior entries reachable from table pt at level k
RECURSIVE InteriorFrom(_, _, _, _)
InteriorFrom(m, df, pt, k) ==
    IF k = Levels \/ pt \in df
    THEN {}
    ELSE UNION { IF is_empty(m[pt][i]) \/ m[pt][i] = Unknown
                 THEN {}
                 ELSE {m[pt][i].ppn} \cup InteriorFrom(m, df, m[pt][i].ppn, k + 1)
                 : i \in Slots }

(* ------------------------------ map_one -------------------------------- *)
(* A walk in progress: w.pt is the physical page of the table the walk     *)
(* stands in, w.nt the frames of new_allocated_tables, w.pts the owned     *)
(* page_tables of the Mapping. The result is the set of outcomes           *)
(* [mem, fa, pts, res], one per choice the allocator (and foreign        *)
(* memory) can make.                                                       *)

\* map_one_fail that keeps the new tables: they are pushed to page_tables
map_one_fail_keeps_tables(w, err) ==
    [mem |-> w.mem, fa |-> w.fa, pts |-> w.pts \o w.nt, res |-> err]

\* the early return: new_allocated_tables is dropped, its frames are freed
map_one_fail(w, err) ==
    [mem |-> w.mem, fa |-> Dealloc(w.fa, SeqRange(w.nt)), pts |-> w.pts, res |-> err]

\* map_one_terminal without the is_empty test: the slot is always written
map_one_terminal_overwrite(w, i, ppn, flags, df) ==
    { [mem |-> Store(w.mem, df, w.pt, i, PageTableEntry(ppn, flags)),
       fa |-> w.fa,
       pts |-> w.pts \o w.nt,
       res |-> "Ok"] }

\* the terminal slot: written when empty, a conflict otherwise
map_one_terminal(w, i, ppn, flags, df) ==
    { IF is_empty(e)
        THEN [mem |-> Store(w.mem, df, w.pt, i, PageTableEntry(ppn, flags)),
              fa |-> w.fa,
              pts |-> w.pts \o w.nt,
              res |-> "Ok"]
        ELSE map_one_fail(w, "MappingConflict")
      : e \in Entries(w.mem, df, w.pt, i) }

\* map_one_new_table linking the new table at slot 0 instead of slot i
map_one_new_table_slot0(w, i, f, df) ==
    [mem |-> Store(PageTableTracker_new(w.mem, f), df, w.pt, 0, PageTableEntry(f, VALID)),
     fa |-> Alloc(w.fa, f),
     pts |-> w.pts,
     pt |-> f,
     nt |-> Append(w.nt, f)]

\* an empty interior slot: a new table is allocated, zeroed and linked
map_one_new_table(w, i, f, df) ==
    [mem |-> Store(PageTableTracker_new(w.mem, f), df, w.pt, i, PageTableEntry(f, VALID)),
     fa |-> Alloc(w.fa, f),
     pts |-> w.pts,
     pt |-> f,
     nt |-> Append(w.nt, f)]

RECURSIVE map_one_walk(_, _, _, _, _, _)
map_one_walk(w, k, vpn, ppn, flags, df) ==
    LET i == levels(vpn)[k] IN
    IF k = Levels
    THEN map_one_terminal(w, i, ppn, flags, df)
    ELSE UNION {
           IF ~is_empty(e)
           THEN map_one_walk([w EXCEPT !.pt = e.ppn], k + 1, vpn, ppn, flags, df)
           ELSE IF AllocChoices(w.fa) = {}
           THEN {map_one_fail(w, "ResourceExhausted")}
           ELSE UNION { map_one_walk(map_one_new_table(w, i, f, df), k + 1, vpn, ppn, flags, df)
                        : f \in AllocChoices(w.fa) }
           : e \in Entries(w.mem, df, w.pt, i) }

\* st = [mem, fa, pts]: the walk starts at page_tables[0], the root
map_one(st, vpn, ppn, flags, df) ==
    map_one_walk([mem |-> st.mem, fa |-> st.fa, pts |-> st.pts,
                  pt |-> st.pts[1], nt |-> <<>>],
                 1, vpn, ppn, flags, df)

(* ----------------------------- map_linear ------------------------------ *)
\* the loop over page_range.iter(): stops at the first page that fails;
\* at is the page the iteration stood at when the loop was left
RECURSIVE map_linear_loop(_, _, _, _, _)
map_linear_loop(st, vpn, end, flags, df) ==
    IF vpn >= end
    THEN {[mem |-> st.mem, fa |-> st.fa, pts |-> st.pts, res |-> "Ok", at |-> vpn]}
    ELSE UNION { IF o.res = "Ok"
                 THEN map_linear_loop(o, vpn + 1, end, flags, df)
                 ELSE {[mem |-> o.mem, fa |-> o.fa, pts |-> o.pts, res |-> o.res, at |-> vpn]}
                 : o \in map_one(st, vpn, LinearPpn(vpn), flags, df) }

\* map_linear without the push of the segment
map_linear_no_segment(st, start, end, flags, df) ==
    { [mem |-> o.mem, fa |-> o.fa, pts |-> o.pts, res |-> o.res, at |-> o.at,
       segs |-> st.segs]
      : o \in map_linear_loop(st, start, end, flags, df) }

\* outcomes [mem, fa, pts, segs, res, at]; the segment is pushed on success only
map_linear(st, start, end, flags, df) ==
    { [mem |-> o.mem, fa |-> o.fa, pts |-> o.pts, res |-> o.res, at |-> o.at,
       segs |-> IF o.res = "Ok"
                THEN Append(st.segs, [kind |-> "Linear", start |-> start, end |-> end,
                                      flags |-> flags, frames |-> <<>>])
                ELSE st.segs]
      : o \in map_linear_loop(st, start, end, flags, df) }

(* ------------------------------ map_alloc ------------------------------ *)
\* map_alloc_one dropping the frame handle at its end instead of returning it
map_alloc_one_drops_frame(st, vpn, flags, df) ==
    IF AllocChoices(st.fa) = {}
    THEN {[mem |-> st.mem, fa |-> st.fa, pts |-> st.pts,
           res |-> "ResourceExhausted", frame |-> 0]}
    ELSE UNION {
           { [mem |-> o.mem, fa |-> Dealloc(o.fa, {f}), pts |-> o.pts, res |-> o.res,
              frame |-> IF o.res = "Ok" THEN f ELSE 0]
             : o \in map_one([st EXCEPT !.fa = Alloc(st.fa, f)], vpn, f, flags, df) }
           : f \in AllocChoices(st.fa) }

\* map_alloc_one testing the terminal slot before it asks for the frame
map_alloc_one_walks_first(st, vpn, flags, df) ==
    IF Empty \notin WalkFrom(st.mem, df, st.pts[1], vpn, 1)
    THEN {[mem |-> st.mem, fa |-> st.fa, pts |-> st.pts,
           res |-> "MappingConflict", frame |-> 0]}
    ELSE IF AllocChoices(st.fa) = {}
    THEN {[mem |-> st.mem, fa |-> st.fa, pts |-> st.pts,
           res |-> "ResourceExhausted", frame |-> 0]}
    ELSE UNION {
           { IF o.res = "Ok"
             THEN [mem |-> o.mem, fa |-> o.fa, pts |-> o.pts, res |-> "Ok", frame |-> f]
             ELSE [mem |-> o.mem, fa |-> Dealloc(o.fa, {f}), pts |-> o.pts,
                   res |-> o.res, frame |-> 0]
             : o \in map_one([st EXCEPT !.fa = Alloc(st.fa, f)], vpn, f, flags, df) }
           : f \in AllocChoices(st.fa) }

\* outcomes [mem, fa, pts, res, frame]: the frame is freed when map_one fails
map_alloc_one(st, vpn, flags, df) ==
    IF AllocChoices(st.fa) = {}
    THEN {[mem |-> st.mem, fa |-> st.fa, pts |-> st.pts,
           res |-> "ResourceExhausted", frame |-> 0]}
    ELSE UNION {
           { IF o.res = "Ok"
             THEN [mem |-> o.mem, fa |-> o.fa, pts |-> o.pts, res |-> "Ok", frame |-> f]
             ELSE [mem |-> o.mem, fa |-> Dealloc(o.fa, {f}), pts |-> o.pts,
                   res |-> o.res, frame |-> 0]
             : o \in map_one([st EXCEPT !.fa = Alloc(st.fa, f)], vpn, f, flags, df) }
           : f \in AllocChoices(st.fa) }

\* st.held: the frames added to the segment under construction so far
RECURSIVE map_alloc_loop(_, _, _, _, _)
map_alloc_loop(st, vpn, end, flags, df) ==
    IF vpn >= end
    THEN {[mem |-> st.mem, fa |-> st.fa, pts |-> st.pts, held |-> st.held, res |-> "Ok"]}
    ELSE UNION { IF o.res = "Ok"
                 THEN map_alloc_loop([mem |-> o.mem, fa |-> o.fa, pts |-> o.pts,
                                      held |-> Append(st.held, o.frame)],
                                     vpn + 1, end, flags, df)
                 ELSE {[mem |-> o.mem, fa |-> o.fa, pts |-> o.pts,
                        held |-> st.held, res |-> o.res]}
                 : o \in map_alloc_one(st, vpn, flags, df) }

\* outcomes [mem, fa, pts, segs, res, bound]; on failure the segment under
\* construction is dropped with the frames it holds
map_alloc(st, start, end, flags, df) ==
    { [mem |-> o.mem,
       fa |-> IF o.res = "Ok" THEN o.fa ELSE Dealloc(o.fa, SeqRange(o.held)),
       pts |-> o.pts,
       res |-> o.res,
       bound |-> o.held,
       segs |-> IF o.res = "Ok"
                THEN Append(st.segs, [kind |-> "Framed", start |-> start, end |-> end,
                                      flags |-> flags, frames |-> o.held])
                ELSE st.segs]
      : o \in map_alloc_loop([mem |-> st.mem, fa |-> st.fa, pts |-> st.pts,
                              held |-> <<>>],
                             start, end, flags, df) }

(* -------------------------------- new ---------------------------------- *)
\* outcomes [mem, fa, pts, segs, res]: the root table takes one frame
new(m, fa) ==
    IF AllocChoices(fa) = {}
    THEN {[mem |-> m, fa |-> fa, pts |-> <<>>, segs |-> <<>>, res |-> "ResourceExhausted"]}
    ELSE { [mem |-> PageTableTracker_new(m, f), fa |-> Alloc(fa, f),
            pts |-> <<f>>, segs |-> <<>>, res |-> "Ok"]
           : f \in AllocChoices(fa) }

(* ------------------------------ activate ------------------------------- *)
\* root_table.page_number().0 | (8 << 60): the mode field and the ppn field
new_satp(pts) == [mode |-> Sv39Mode, ppn |-> pts[1]]

\* activate without the sfence.vma after the write
activate_no_fence(old_satp, pts) ==
    IF old_satp # new_satp(pts)
    THEN [satp |-> new_satp(pts), hw |-> <<"csrw">>]
    ELSE [satp |-> old_satp, hw |-> <<>>]

\* activate without the comparison: it always writes and flushes
activate_always(old_satp, pts) ==
    [satp |-> new_satp(pts), hw |-> <<"csrw", "sfence.vma">>]

\* the register after activate and the instructions it issued, in order
activate(old_satp, pts) ==
    IF old_satp # new_satp(pts)
    THEN [satp |-> new_satp(pts), hw |-> <<"csrw", "sfence.vma">>]
    ELSE [satp |-> old_satp, hw |-> <<>>]

(* ----------------------------- new_kernel ------------------------------ *)
\* VirtualPageNumber of a (page aligned) VirtualAddress
PageOf(addr) == addr \div PAGE_SIZE

\* the five ranges new_kernel maps, in order, with their flags
kernel_ranges(l) ==
    << [start |-> PageOf(l.text_start), end |-> PageOf(l.rodata_start),
        flags |-> VALID \cup READABLE \cup EXECUTABLE],
       [start |-> PageOf(l.rodata_start), end |-> PageOf(l.data_start),
        flags |-> VALID \cup READABLE],
       [start |-> PageOf(l.data_start), end |-> PageOf(l.bss_start),
        flags |-> VALID \cup READABLE \cup WRITABLE],
       [start |-> PageOf(l.bss_start), end |-> PageOf(l.boot_stack_start),
        flags |-> VALID \cup READABLE \cup WRITABLE],
       [start |-> PageOf(l.kernel_end), end |-> PageOf(l.memory_end),
        flags |-> VALID \cup READABLE \cup WRITABLE] >>

\* drop_mapping that frees nothing and leaves the partial Mapping in place
drop_mapping_keeps(o) ==
    [mem |-> o.mem, fa |-> o.fa, pts |-> o.pts, segs |-> o.segs, res |-> o.res]

\* drop of a Mapping: every owned table and every segment frame is freed
drop_mapping(o) ==
    [mem |-> o.mem,
     fa |-> Dealloc(o.fa,
                    SeqRange(o.pts)
                      \cup UNION {SeqRange(o.segs[i].frames) : i \in 1 .. Len(o.segs)}),
     pts |-> <<>>, segs |-> <<>>, res |-> o.res]

\* outcome o of the builder with log, the results of the calls it made
Logged(o, log) ==
    [mem |-> o.mem, fa |-> o.fa, pts |-> o.pts, segs |-> o.segs, res |-> o.res, log |-> log]

\* the map_linear calls from the k-th on; the first failure drops the mapping
RECURSIVE new_kernel_from(_, _, _, _, _)
new_kernel_from(st, k, rs, df, log) ==
    IF k > Len(rs)
    THEN {Logged(st, log)}
    ELSE UNION { IF o.res = "Ok"
                 THEN new_kernel_from(o, k + 1, rs, df, Append(log, o.res))
                 ELSE {Logged(drop_mapping(o), Append(log, o.res))}
                 : o \in map_linear(st, rs[k].start, rs[k].end, rs[k].flags, df) }

\* outcomes [mem, fa, pts, segs, res, log]
new_kernel(m, fa, l, df) ==
    UNION { IF o.res = "Ok"
            THEN new_kernel_from(o, 1, kernel_ranges(l), df, <<o.res>>)
            ELSE {Logged(o, <<o.res>>)}
            : o \in new(m, fa) }

(* ------------------------------- calls --------------------------------- *)
\* a thread that is in no call
Idle == [pc |-> "idle", op |-> "none", start |-> 0, end |-> 0, flags |-> {},
         vpn |-> 0, k |-> 0, pt |-> 0, nt |-> <<>>, frame |-> 0, held |-> <<>>,
         bound |-> <<>>, drop |-> <<>>, res |-> "Ok"]

NoCall == [op |-> "none", sp |-> 0, start |-> 0, end |-> 0, flags |-> {},
           res |-> "Ok", hw |-> <<>>, bound |-> <<>>]

Call(op, sp, start, end, flags, res, hw, bound) ==
    [op |-> op, sp |-> sp, start |-> start, end |-> end, flags |-> flags,
     res |-> res, hw |-> hw, bound |-> bound]

Exists(sp) == page_tables[sp] # <<>>

\* the slot a newly constructed Mapping takes
FreshSlot(sp) == ~Exists(sp) /\ \A t \in Spaces : t < sp => Exists(t)

\* the state a call on Mapping sp starts from
StateOf(sp) == [mem |-> mem, fa |-> FRAME_ALLOCATOR, pts |-> page_tables[sp], segs |-> segments[sp]]

\* the page ranges callers pass: start .. end, possibly empty
Ranges == {r \in VPages \X (0 .. NumPages) : r[1] <= r[2] /\ r[2] - r[1] <= MaxRangeLen}

CallNew(sp) ==
    /\ ncalls < MaxCalls
    /\ FreshSlot(sp)
    /\ \E o \in new(mem, FRAME_ALLOCATOR) :
         /\ mem' = o.mem
         /\ FRAME_ALLOCATOR' = o.fa
         /\ page_tables' = [page_tables EXCEPT ![sp] = o.pts]
         /\ segments' = [segments EXCEPT ![sp] = o.segs]
         /\ last' = Call("new", sp, 0, 0, {}, o.res, <<>>, <<>>)
    /\ ncalls' = ncalls + 1
    /\ UNCHANGED <<satp, alloc_leaves, nmaps, nfailed, layout, lock, thread>>

CallMapLinear(sp, r, flags) ==
    /\ ncalls < MaxCalls
    /\ Exists(sp)
    /\ \E o \in map_linear(StateOf(sp), r[1], r[2], flags, SegFrames(segments)) :
         /\ mem' = o.mem
         /\ FRAME_ALLOCATOR' = o.fa
         /\ page_tables' = [page_tables EXCEPT ![sp] = o.pts]
         /\ segments' = [segments EXCEPT ![sp] = o.segs]
         /\ last' = Call("map_linear", sp, r[1], r[2], flags, o.res, <<>>,
                         [i \in 1 .. (o.at - r[1]) |-> LinearPpn(r[1] + i - 1)])
         /\ nfailed' = [nfailed EXCEPT ![sp] = @ + (IF o.res = "Ok" THEN 0 ELSE 1)]
    /\ nmaps' = [nmaps EXCEPT ![sp] = @ + 1]
    /\ ncalls' = ncalls + 1
    /\ UNCHANGED <<satp, alloc_leaves, layout, lock, thread>>

CallMapAlloc(sp, r, flags) ==
    /\ ncalls < MaxCalls
    /\ Exists(sp)
    /\ \E o \in map_alloc(StateOf(sp), r[1], r[2], flags, SegFrames(segments)) :
         /\ mem' = o.mem
         /\ FRAME_ALLOCATOR' = o.fa
         /\ page_tables' = [page_tables EXCEPT ![sp] = o.pts]
         /\ segments' = [segments EXCEPT ![sp] = o.segs]
         /\ last' = Call("map_alloc", sp, r[1], r[2], flags, o.res, <<>>, o.bound)
         /\ alloc_leaves' = alloc_leaves
                \cup {<<sp, r[1] + i - 1, o.bound[i]>> : i \in 1 .. Len(o.bound)}
         /\ nfailed' = [nfailed EXCEPT ![sp] = @ + (IF o.res = "Ok" THEN 0 ELSE 1)]
    /\ nmaps' = [nmaps EXCEPT ![sp] = @ + 1]
    /\ ncalls' = ncalls + 1
    /\ UNCHANGED <<satp, layout, lock, thread>>

CallActivate(sp) ==
    /\ ncalls < MaxCalls
    /\ Exists(sp)
    /\ satp' = activate(satp, page_tables[sp]).satp
    /\ last' = Call("activate", sp, 0, 0, {}, "Ok", activate(satp, page_tables[sp]).hw, <<>>)
    /\ ncalls' = ncalls + 1
    /\ UNCHANGED <<mem, FRAME_ALLOCATOR, page_tables, segments, alloc_leaves, nmaps, nfailed, layout, lock, thread>>

CallNewKernel(sp) ==
    /\ ncalls < MaxCalls
    /\ ncalls < MaxKernelCalls
    /\ FreshSlot(sp)
    /\ \E o \in new_kernel(mem, FRAME_ALLOCATOR, layout, SegFrames(segments)) :
         /\ mem' = o.mem
         /\ FRAME_ALLOCATOR' = o.fa
         /\ page_tables' = [page_tables EXCEPT ![sp] = o.pts]
         /\ segments' = [segments EXCEPT ![sp] = o.segs]
         /\ last' = Call("new_kernel", sp, 0, 0, {}, o.res, <<>>, o.log)
    /\ ncalls' = ncalls + 1
    /\ UNCHANGED <<satp, alloc_leaves, nmaps, nfailed, layout, lock, thread>>

(* ------------------------- calls, step by step ------------------------- *)
(* Thread t works on Mapping t. A call is a sequence of steps; the steps   *)
(* of threads on different Mappings interleave. th.pc is the position:     *)
(*   "loop"   at the head of `for vpn in page_range.iter()`                *)
(*   "walk"   in map_one, about to read the entry of level th.k            *)
(*   "*_lock" about to enter FRAME_ALLOCATOR.lock()                        *)
(*   "*_alloc", "drop_free" inside the lock                                *)
(*   "drop"   returning an error: the handles in th.drop are being dropped *)
SetThread(t, th) == thread' = [thread EXCEPT ![t] = th]

\* the pc inside the lock that follows each pc waiting for it
Inside(pc) ==
    CASE pc = "new_lock" -> "new_alloc"
      [] pc = "frame_lock" -> "frame_alloc"
      [] pc = "table_lock" -> "table_alloc"
      [] pc = "drop_lock" -> "drop_free"

\* the handles a failing page drops, in order: new_allocated_tables, the
\* frame of map_alloc_one, the frames of the segment under construction
Dropped(th) == th.nt \o (IF th.frame = 0 THEN <<>> ELSE <<th.frame>>) \o th.held

\* the call returns an error once the handles are dropped
Failing(th, err) ==
    [th EXCEPT !.pc = "drop", !.res = err, !.drop = Dropped(th),
               !.nt = <<>>, !.frame = 0, !.held = <<>>]

BeginNew(t) ==
    /\ ncalls < MaxCalls
    /\ FreshSlot(t)
    /\ thread[t].pc = "idle"
    /\ SetThread(t, [Idle EXCEPT !.pc = "new_lock", !.op = "new"])
    /\ ncalls' = ncalls + 1
    /\ UNCHANGED <<mem, FRAME_ALLOCATOR, page_tables, segments, satp, last,
                   alloc_leaves, nmaps, nfailed, layout, lock>>

BeginMap(t, op, r, flags) ==
    /\ ncalls < MaxCalls
    /\ Exists(t)
    /\ thread[t].pc = "idle"
    /\ SetThread(t, [Idle EXCEPT !.pc = "loop", !.op = op, !.start = r[1], !.end = r[2],
                                 !.flags = flags, !.vpn = r[1]])
    /\ ncalls' = ncalls + 1
    /\ UNCHANGED <<mem, FRAME_ALLOCATOR, page_tables, segments, satp, last,
                   alloc_leaves, nmaps, nfailed, layout, lock>>

\* FRAME_ALLOCATOR.lock(): the thread enters when no thread is inside
Lock(t) ==
    /\ thread[t].pc \in {"new_lock", "frame_lock", "table_lock", "drop_lock"}
    /\ lock = 0
    /\ lock' = t
    /\ SetThread(t, [thread[t] EXCEPT !.pc = Inside(thread[t].pc)])
    /\ UNCHANGED <<mem, FRAME_ALLOCATOR, page_tables, segments, satp, last, ncalls,
                   alloc_leaves, nmaps, nfailed, layout>>

\* new(): alloc()?, PageTableTracker::new, and the guard dropped at the return
NewAlloc(t) ==
    /\ thread[t].pc = "new_alloc"
    /\ \E o \in new(mem, FRAME_ALLOCATOR) :
         /\ mem' = o.mem
         /\ FRAME_ALLOCATOR' = o.fa
         /\ page_tables' = [page_tables EXCEPT ![t] = o.pts]
         /\ segments' = [segments EXCEPT ![t] = o.segs]
         /\ last' = Call("new", t, 0, 0, {}, o.res, <<>>, <<>>)
    /\ lock' = 0
    /\ SetThread(t, Idle)
    /\ UNCHANGED <<satp, ncalls, alloc_leaves, nmaps, nfailed, layout>>

\* the head of the loop: the next page, or the push of the segment
LoopStep(t) ==
    LET th == thread[t] IN
    /\ th.pc = "loop"
    /\ IF th.vpn >= th.end
       THEN /\ segments' = [segments EXCEPT ![t] =
                  Append(@, [kind |-> IF th.op = "map_alloc" THEN "Framed" ELSE "Linear",
                             start |-> th.start, end |-> th.end, flags |-> th.flags,
                             frames |-> th.held])]
            /\ last' = Call(th.op, t, th.start, th.end, th.flags, "Ok", <<>>, th.bound)
            /\ SetThread(t, Idle)
       ELSE /\ SetThread(t, IF th.op = "map_alloc"
                            THEN [th EXCEPT !.pc = "frame_lock"]
                            ELSE [th EXCEPT !.pc = "walk", !.k = 1,
                                            !.pt = page_tables[t][1], !.nt = <<>>])
            /\ UNCHANGED <<segments, last>>
    /\ UNCHANGED <<mem, FRAME_ALLOCATOR, page_tables, satp, ncalls,
                   alloc_leaves, nmaps, nfailed, layout, lock>>

\* FrameAlloc that stays inside the lock while the page is mapped
FrameAlloc_keeps_lock(t) ==
    LET th == thread[t] IN
    /\ th.pc = "frame_alloc"
    /\ IF AllocChoices(FRAME_ALLOCATOR) = {}
       THEN /\ SetThread(t, Failing(th, "ResourceExhausted"))
            /\ lock' = 0
            /\ UNCHANGED FRAME_ALLOCATOR
       ELSE \E f \in AllocChoices(FRAME_ALLOCATOR) :
              /\ FRAME_ALLOCATOR' = Alloc(FRAME_ALLOCATOR, f)
              /\ lock' = lock
              /\ SetThread(t, [th EXCEPT !.pc = "walk", !.frame = f, !.k = 1,
                                         !.pt = page_tables[t][1], !.nt = <<>>])
    /\ UNCHANGED <<mem, page_tables, segments, satp, last, ncalls,
                   alloc_leaves, nmaps, nfailed, layout>>

\* map_alloc_one: FRAME_ALLOCATOR.lock().alloc()?, the guard dropped at the `;`
FrameAlloc(t) ==
    LET th == thread[t] IN
    /\ th.pc = "frame_alloc"
    /\ IF AllocChoices(FRAME_ALLOCATOR) = {}
       THEN /\ SetThread(t, Failing(th, "ResourceExhausted"))
            /\ UNCHANGED FRAME_ALLOCATOR
       ELSE \E f \in AllocChoices(FRAME_ALLOCATOR) :
              /\ FRAME_ALLOCATOR' = Alloc(FRAME_ALLOCATOR, f)
              /\ SetThread(t, [th EXCEPT !.pc = "walk", !.frame = f, !.k = 1,
                                         !.pt = page_tables[t][1], !.nt = <<>>])
    /\ lock' = 0
    /\ UNCHANGED <<mem, page_tables, segments, satp, last, ncalls,
                   alloc_leaves, nmaps, nfailed, layout>>

\* map_one at level th.k: descend, ask for a new table, or bind the page
WalkStep(t) ==
    LET th == thread[t]
        i == levels(th.vpn)[th.k]
        df == SegFrames(segments)
        ppn == IF th.op = "map_alloc" THEN th.frame ELSE LinearPpn(th.vpn)
    IN
    /\ th.pc = "walk"
    /\ \E e \in Entries(mem, df, th.pt, i) :
         IF th.k < Levels
         THEN /\ SetThread(t, IF is_empty(e)
                              THEN [th EXCEPT !.pc = "table_lock"]
                              ELSE [th EXCEPT !.pt = e.ppn, !.k = th.k + 1])
              /\ UNCHANGED <<mem, page_tables>>
         ELSE IF is_empty(e)
         THEN /\ mem' = Store(mem, df, th.pt, i, PageTableEntry(ppn, th.flags))
              /\ page_tables' = [page_tables EXCEPT ![t] = @ \o th.nt]
              /\ SetThread(t, [th EXCEPT !.pc = "loop", !.vpn = th.vpn + 1, !.nt = <<>>,
                                         !.frame = 0,
                                         !.bound = Append(th.bound, ppn),
                                         !.held = IF th.op = "map_alloc"
                                                  THEN Append(th.held, th.frame)
                                                  ELSE th.held])
         ELSE /\ SetThread(t, Failing(th, "MappingConflict"))
              /\ UNCHANGED <<mem, page_tables>>
    /\ UNCHANGED <<FRAME_ALLOCATOR, segments, satp, last, ncalls,
                   alloc_leaves, nmaps, nfailed, layout, lock>>

\* TableAlloc that does not take the frame out of the free pool
TableAlloc_leaves_free(t) ==
    LET th == thread[t]
        i == levels(th.vpn)[th.k]
        df == SegFrames(segments)
    IN
    /\ th.pc = "table_alloc"
    /\ IF AllocChoices(FRAME_ALLOCATOR) = {}
       THEN /\ SetThread(t, Failing(th, "ResourceExhausted"))
            /\ UNCHANGED <<mem, FRAME_ALLOCATOR>>
       ELSE \E f \in AllocChoices(FRAME_ALLOCATOR) :
              /\ FRAME_ALLOCATOR' = [FRAME_ALLOCATOR EXCEPT !.used = @ \cup {f}]
              /\ mem' = Store(PageTableTracker_new(mem, f), df, th.pt, i,
                              PageTableEntry(f, VALID))
              /\ SetThread(t, [th EXCEPT !.pc = "walk", !.nt = Append(th.nt, f),
                                         !.pt = f, !.k = th.k + 1])
    /\ lock' = 0
    /\ UNCHANGED <<page_tables, segments, satp, last, ncalls,
                   alloc_leaves, nmaps, nfailed, layout>>

\* map_one: PageTableTracker::new(FRAME_ALLOCATOR.lock().alloc()?), the entry
\* write and the push to new_allocated_tables
TableAlloc(t) ==
    LET th == thread[t]
        i == levels(th.vpn)[th.k]
        df == SegFrames(segments)
    IN
    /\ th.pc = "table_alloc"
    /\ IF AllocChoices(FRAME_ALLOCATOR) = {}
       THEN /\ SetThread(t, Failing(th, "ResourceExhausted"))
            /\ UNCHANGED <<mem, FRAME_ALLOCATOR>>
       ELSE \E f \in AllocChoices(FRAME_ALLOCATOR) :
              /\ FRAME_ALLOCATOR' = Alloc(FRAME_ALLOCATOR, f)
              /\ mem' = Store(PageTableTracker_new(mem, f), df, th.pt, i,
                              PageTableEntry(f, VALID))
              /\ SetThread(t, [th EXCEPT !.pc = "walk", !.nt = Append(th.nt, f),
                                         !.pt = f, !.k = th.k + 1])
    /\ lock' = 0
    /\ UNCHANGED <<page_tables, segments, satp, last, ncalls,
                   alloc_leaves, nmaps, nfailed, layout>>

\* the error return: the next handle is dropped, or the call has returned
DropStep(t) ==
    LET th == thread[t] IN
    /\ th.pc = "drop"
    /\ IF th.drop = <<>>
       THEN /\ last' = Call(th.op, t, th.start, th.end, th.flags, th.res, <<>>, th.bound)
            /\ SetThread(t, Idle)
       ELSE /\ SetThread(t, [th EXCEPT !.pc = "drop_lock"])
            /\ UNCHANGED last
    /\ UNCHANGED <<mem, FRAME_ALLOCATOR, page_tables, segments, satp, ncalls,
                   alloc_leaves, nmaps, nfailed, layout, lock>>

\* drop of one frame handle: the frame goes back to the pool, inside the lock
DropFree(t) ==
    LET th == thread[t] IN
    /\ th.pc = "drop_free"
    /\ FRAME_ALLOCATOR' = Dealloc(FRAME_ALLOCATOR, {Head(th.drop)})
    /\ lock' = 0
    /\ SetThread(t, [th EXCEPT !.pc = "drop", !.drop = Tail(th.drop)])
    /\ UNCHANGED <<mem, page_tables, segments, satp, last, ncalls,
                   alloc_leaves, nmaps, nfailed, layout>>

(* --------------------------- specifications ---------------------------- *)
\* satp at boot: bare, or Sv39 on the boot page table (no allocator frame)
BootSatp == {[mode |-> 0, ppn |-> 0], [mode |-> Sv39Mode, ppn |-> 0]}

Page(n) == n * PAGE_SIZE

\* text_start < rodata_start < data_start < bss_start < boot_stack_start
\*   <= kernel_end < memory_end, all page aligned
Layouts ==
    { [text_start |-> Page(t[1]), rodata_start |-> Page(t[2]), data_start |-> Page(t[3]),
       bss_start |-> Page(t[4]), boot_stack_start |-> Page(t[5]),
       kernel_end |-> Page(t[6]), memory_end |-> Page(t[7])]
      : t \in { u \in [1 .. 7 -> 0 .. MaxKernelPage] :
                  /\ u[1] < u[2] /\ u[2] < u[3] /\ u[3] < u[4] /\ u[4] < u[5]
                  /\ u[5] <= u[6] /\ u[6] < u[7] } }

DefaultLayout ==
    [text_start |-> Page(0), rodata_start |-> Page(1), data_start |-> Page(2),
     bss_start |-> Page(3), boot_stack_start |-> Page(4),
     kernel_end |-> Page(4), memory_end |-> Page(5)]

InitCommon ==
    /\ mem = [p \in PhysPages |-> Garbage]
    /\ page_tables = [sp \in Spaces |-> <<>>]
    /\ segments = [sp \in Spaces |-> <<>>]
    /\ satp \in BootSatp
    /\ last = NoCall
    /\ ncalls = 0
    /\ alloc_leaves = {}
    /\ nmaps = [sp \in Spaces |-> 0]
    /\ nfailed = [sp \in Spaces |-> 0]
    /\ lock = 0
    /\ thread = [sp \in Spaces |-> Idle]

\* the allocator starts with some of its frames free, the others in use elsewhere
Init ==
    /\ InitCommon
    /\ \E n \in 1 .. NumFrames : FRAME_ALLOCATOR = [free |-> 1 .. n, used |-> {}]
    /\ layout = DefaultLayout

Next ==
    \/ \E sp \in Spaces : CallNew(sp)
    \/ \E sp \in Spaces, r \in Ranges, flags \in FlagChoices : CallMapLinear(sp, r, flags)
    \/ \E sp \in Spaces, r \in Ranges, flags \in FlagChoices : CallMapAlloc(sp, r, flags)
    \/ \E sp \in Spaces : CallActivate(sp)

Spec == Init /\ [][Next]_vars

InitKernel ==
    /\ InitCommon
    /\ \E n \in 0 .. NumFrames : FRAME_ALLOCATOR = [free |-> 1 .. n, used |-> {}]
    /\ layout \in Layouts

NextKernel ==
    \/ \E sp \in Spaces : CallNewKernel(sp)
    \/ \E sp \in Spaces : CallActivate(sp)

SpecKernel == InitKernel /\ [][NextKernel]_vars

\* the state right after new() returned the first Mapping, memory being
\* scarce: its root is the first frame the allocator handed out, zeroed,
\* nothing is mapped yet, and satp is as boot left it
InitConstructed ==
    /\ \E n \in 1 .. ScarceFrames :
         /\ FRAME_ALLOCATOR = [free |-> 2 .. n, used |-> {1}]
         /\ mem = [p \in PhysPages |-> IF p = 1 THEN ZeroTable ELSE Garbage]
    /\ page_tables = [sp \in Spaces |-> IF sp = 1 THEN <<1>> ELSE <<>>]
    /\ segments = [sp \in Spaces |-> <<>>]
    /\ satp = [mode |-> 0, ppn |-> 0]
    /\ last = NoCall
    /\ ncalls = 0
    /\ alloc_leaves = {}
    /\ nmaps = [sp \in Spaces |-> 0]
    /\ nfailed = [sp \in Spaces |-> 0]
    /\ lock = 0
    /\ thread = [sp \in Spaces |-> Idle]
    /\ layout = DefaultLayout

\* the mapping calls made on the constructed Mapping
NextConstructed ==
    \/ \E sp \in Spaces, r \in Ranges, flags \in FlagChoices : CallMapLinear(sp, r, flags)
    \/ \E sp \in Spaces, r \in Ranges, flags \in FlagChoices : CallMapAlloc(sp, r, flags)

SpecConstructed == InitConstructed /\ [][NextConstructed]_vars

\* Mapping 1 is constructed, Mapping 2 is or is not; ConcFree frames or fewer
\* are free, and no thread is in a call
InitConcurrent ==
    /\ \E c \in 1 .. NumSpaces, n \in 0 .. ConcFree :
         /\ FRAME_ALLOCATOR = [free |-> (c + 1) .. (c + n), used |-> 1 .. c]
         /\ mem = [p \in PhysPages |-> IF p \in 1 .. c THEN ZeroTable ELSE Garbage]
         /\ page_tables = [sp \in Spaces |-> IF sp <= c THEN <<sp>> ELSE <<>>]
    /\ segments = [sp \in Spaces |-> <<>>]
    /\ satp = [mode |-> 0, ppn |-> 0]
    /\ last = NoCall
    /\ ncalls = 0
    /\ alloc_leaves = {}
    /\ nmaps = [sp \in Spaces |-> 0]
    /\ nfailed = [sp \in Spaces |-> 0]
    /\ layout = DefaultLayout
    /\ lock = 0
    /\ thread = [sp \in Spaces |-> Idle]

\* the arguments the concurrent callers pass: the non-empty ranges that
\* start at page 0, read-write
ConcRanges == {r \in Ranges : r[1] = 0 /\ r[2] > 0}
ConcFlags == VALID \cup READABLE \cup WRITABLE

\* one step of thread t
ThreadStep(t) ==
    \/ BeginNew(t)
    \/ \E r \in ConcRanges : BeginMap(t, "map_linear", r, ConcFlags)
    \/ \E r \in ConcRanges : BeginMap(t, "map_alloc", r, ConcFlags)
    \/ Lock(t)
    \/ NewAlloc(t)
    \/ LoopStep(t)
    \/ FrameAlloc(t)
    \/ WalkStep(t)
    \/ TableAlloc(t)
    \/ DropStep(t)
    \/ DropFree(t)

NextConcurrent == \E t \in Spaces : ThreadStep(t)

SpecConcurrent == InitConcurrent /\ [][NextConcurrent]_vars

\* the steps of a call that thread t has begun
Progress(t) ==
    \/ Lock(t)
    \/ NewAlloc(t)
    \/ LoopStep(t)
    \/ FrameAlloc(t)
    \/ WalkStep(t)
    \/ TableAlloc(t)
    \/ DropStep(t)
    \/ DropFree(t)

\* fair scheduling: a thread whose next step stays possible takes it
SpecConcurrentFair == SpecConcurrent /\ \A t \in Spaces : WF_vars(Progress(t))

(* ======================= properties of the model ======================= *)
Free == FRAME_ALLOCATOR.free

\* the entries the table walk of Mapping sp for vpn can end in
Lookup(sp, vpn) == WalkFrom(mem, SegFrames(segments), page_tables[sp][1], vpn, 1)

\* vpn has a Leaf entry: the walk ends in one determined non-empty terminal entry
HasLeaf(sp, vpn) ==
    /\ Exists(sp)
    /\ Cardinality(Lookup(sp, vpn)) = 1
    /\ Empty \notin Lookup(sp, vpn)

LeafOf(sp, vpn) == CHOOSE e \in Lookup(sp, vpn) : TRUE

IsMapCall(c) == c.op \in {"map_linear", "map_alloc"}

\* this step is a map_linear / map_alloc call on sp whose first page is v
MapsFirst(sp, v) ==
    /\ ncalls' = ncalls + 1
    /\ IsMapCall(last')
    /\ last'.sp = sp
    /\ last'.start = v
    /\ last'.end > v

\* the i-th segment of sp covers page v
Covers(sp, i, v) == segments[sp][i].start <= v /\ v < segments[sp][i].end

\* the physical page the i-th segment of sp records for page v
SegPpn(sp, i, v) ==
    IF segments[sp][i].kind = "Linear"
    THEN LinearPpn(v)
    ELSE segments[sp][i].frames[v - segments[sp][i].start + 1]

(* C1 (as amended): an attempt to map a page v that already has a Leaf     *)
(* entry fails and leaves that Leaf entry as it was. The error is          *)
(* MappingConflict, except that map_alloc, which takes the page's frame    *)
(* before it walks the table, reports ResourceExhausted when the free pool *)
(* is empty.                                                               *)
C1_RemapFails ==
    [][ \A sp \in Spaces, v \in VPages :
          (HasLeaf(sp, v) /\ MapsFirst(sp, v))
            => /\ last'.res = IF last'.op = "map_alloc" /\ AllocChoices(FRAME_ALLOCATOR) = {}
                              THEN "ResourceExhausted"
                              ELSE "MappingConflict"
               /\ HasLeaf(sp, v)'
               /\ LeafOf(sp, v)' = LeafOf(sp, v) ]_vars

\* C1 as stated: the second attempt fails with MappingConflict whatever the
\* free pool holds, and the Leaf entry is kept
C1_RemapAlwaysConflict ==
    [][ \A sp \in Spaces, v \in VPages :
          (HasLeaf(sp, v) /\ MapsFirst(sp, v))
            => /\ last'.res = "MappingConflict"
               /\ HasLeaf(sp, v)'
               /\ LeafOf(sp, v)' = LeafOf(sp, v) ]_vars

\* a second attempt on a mapped page has just failed with MappingConflict
C1_Witness ==
    /\ IsMapCall(last)
    /\ last.start < last.end
    /\ last.res = "MappingConflict"
    /\ nmaps[last.sp] >= 2
    /\ HasLeaf(last.sp, last.start)

(* C2: no frame of the free pool is the target of an Interior entry        *)
(* reachable from a root, and none is the target of a Leaf entry that      *)
(* map_alloc wrote and that the table still holds.                         *)
C2_NoFreedFrameReferenced ==
    \A sp \in Spaces :
      Exists(sp) =>
        /\ InteriorFrom(mem, SegFrames(segments), page_tables[sp][1], 1) \cap Free = {}
        /\ \A t \in alloc_leaves :
             (t[1] = sp /\ HasLeaf(sp, t[2]) /\ LeafOf(sp, t[2]).ppn = t[3])
               => t[3] \notin Free

(* C3: a Framed segment holds one frame per page of its range, in page     *)
(* order (the j-th frame is the one bound to the j-th page), the frames    *)
(* are pairwise distinct, and none of them is in the free pool; a          *)
(* successful map_alloc appends exactly that segment.                      *)
C3_FramedSegment ==
    /\ \A sp \in Spaces : \A i \in 1 .. Len(segments[sp]) :
         LET seg == segments[sp][i] IN
         seg.kind = "Framed" =>
           /\ Len(seg.frames) = seg.end - seg.start
           /\ \A j, k \in 1 .. Len(seg.frames) : j # k => seg.frames[j] # seg.frames[k]
           /\ SeqRange(seg.frames) \cap Free = {}
           /\ \A j \in 1 .. Len(seg.frames) :
                /\ <<sp, seg.start + j - 1, seg.frames[j]>> \in alloc_leaves
                /\ (\A t \in Spaces : nfailed[t] = 0)
                     => Lookup(sp, seg.start + j - 1)
                          = {PageTableEntry(seg.frames[j], seg.flags)}
    /\ (last.op = "map_alloc" /\ last.res = "Ok")
         => /\ segments[last.sp] # <<>>
            /\ segments[last.sp][Len(segments[last.sp])]
                 = [kind |-> "Framed", start |-> last.start, end |-> last.end,
                    flags |-> last.flags, frames |-> last.bound]

\* map_alloc has just succeeded over two pages
C3_Witness ==
    /\ last.op = "map_alloc"
    /\ last.res = "Ok"
    /\ last.end = last.start + 2
    /\ Len(segments[last.sp][Len(segments[last.sp])].frames) = 2

\* the last segment recorded for sp
LastSegment(sp) == segments[sp][Len(segments[sp])]

\* no map_linear / map_alloc call has returned an error so far
NoFailure == \A t \in Spaces : nfailed[t] = 0

(* C4: a successful new_kernel yields exactly 5 Linear segments, in order, *)
(* contiguous and gapless from text_start to memory_end, with the flags    *)
(* r-x, r--, rw-, rw-, rw-.                                                *)
C4_KernelSegmentsGapless ==
    (last.op = "new_kernel" /\ last.res = "Ok")
      => LET segs == segments[last.sp] IN
         /\ Len(segs) = 5
         /\ \A i \in 1 .. 5 : segs[i].kind = "Linear"
         /\ segs[1].start = PageOf(layout.text_start)
         /\ \A i \in 1 .. 4 : segs[i].end = segs[i + 1].start
         /\ segs[5].end = PageOf(layout.memory_end)
         /\ segs[1].flags = VALID \cup READABLE \cup EXECUTABLE
         /\ segs[2].flags = VALID \cup READABLE
         /\ \A i \in 3 .. 5 : segs[i].flags = VALID \cup READABLE \cup WRITABLE

(* C5: when exactly two map calls were made on a Mapping, both succeeded   *)
(* and their ranges do not overlap, the walk for every page of either      *)
(* range ends in the physical page and the flags bound for that page,      *)
(* whichever of the two ranges was mapped first.                           *)
C5_DisjointRangesKeepTranslation ==
    \A sp \in Spaces :
      (/\ nmaps[sp] = 2
       /\ nfailed[sp] = 0
       /\ Len(segments[sp]) = 2
       /\ \A v \in VPages : ~(Covers(sp, 1, v) /\ Covers(sp, 2, v)))
        => \A i \in 1 .. 2 : \A v \in VPages :
             Covers(sp, i, v)
               => Lookup(sp, v) = {PageTableEntry(SegPpn(sp, i, v), segments[sp][i].flags)}

\* two non-empty ranges were mapped, the higher one first, one of each kind
C5_Witness ==
    \E sp \in Spaces :
      /\ nmaps[sp] = 2
      /\ nfailed[sp] = 0
      /\ Len(segments[sp]) = 2
      /\ segments[sp][1].start < segments[sp][1].end
      /\ segments[sp][2].start < segments[sp][2].end
      /\ segments[sp][2].end <= segments[sp][1].start
      /\ segments[sp][1].kind # segments[sp][2].kind

(* C6: after a successful map_linear the walk for every page v of the      *)
(* range ends in a Leaf with physical page v and the given flags, and one  *)
(* Linear segment spanning the range with those flags has been appended.   *)
C6_LinearIdentity ==
    (last.op = "map_linear" /\ last.res = "Ok")
      => /\ \A v \in last.start .. (last.end - 1) :
              Lookup(last.sp, v) = {PageTableEntry(v, last.flags)}
         /\ segments[last.sp] # <<>>
         /\ LastSegment(last.sp)
              = [kind |-> "Linear", start |-> last.start, end |-> last.end,
                 flags |-> last.flags, frames |-> <<>>]

(* C7: when the allocator has no free frame, map_alloc over a 1-page range *)
(* fails with ResourceExhausted.                                           *)
C7_AllocExhausted ==
    [][ (/\ Free = {}
         /\ ncalls' = ncalls + 1
         /\ last'.op = "map_alloc"
         /\ last'.end = last'.start + 1)
          => last'.res = "ResourceExhausted" ]_vars

\* new() took the only free frame for the root, and map_alloc of one page failed
C7_Witness ==
    /\ last.op = "map_alloc"
    /\ last.end = last.start + 1
    /\ last.res = "ResourceExhausted"
    /\ Free = {}
    /\ FRAME_ALLOCATOR.used = {page_tables[last.sp][1]}
    /\ page_tables[last.sp] = <<page_tables[last.sp][1]>>

(* C8: activate writes satp and then issues sfence.vma exactly when satp   *)
(* differs from the value of the Mapping's root; otherwise it does         *)
(* neither. satp holds the Mapping's value when activate returns.          *)
C8_ActivateWritesIffChanged ==
    [][ \A sp \in Spaces :
          (ncalls' = ncalls + 1 /\ last'.op = "activate" /\ last'.sp = sp)
            => /\ satp # new_satp(page_tables[sp])
                    => last'.hw = <<"csrw", "sfence.vma">>
               /\ satp = new_satp(page_tables[sp])
                    => last'.hw = <<>>
               /\ satp' = new_satp(page_tables[sp]) ]_vars

\* activate has just written satp and flushed
C8_Witness ==
    /\ last.op = "activate"
    /\ last.hw = <<"csrw", "sfence.vma">>
    /\ satp = new_satp(page_tables[last.sp])

(* C9: the second of two consecutive activate calls on the same Mapping    *)
(* writes nothing: no csrw, no sfence.vma, satp unchanged.                 *)
C9_SecondActivateIsNoOp ==
    [][ (/\ last.op = "activate"
         /\ ncalls' = ncalls + 1
         /\ last'.op = "activate"
         /\ last'.sp = last.sp)
          => (last'.hw = <<>> /\ satp' = satp) ]_vars

\* new, activate, activate: the third call found satp already set
C9_Witness ==
    /\ ncalls = 3
    /\ last.op = "activate"
    /\ last.hw = <<>>
    /\ \A t \in Spaces : t # last.sp => ~Exists(t)

\* exactly one recorded segment of sp covers page v
CoveredOnce(sp, v) == Cardinality({i \in 1 .. Len(segments[sp]) : Covers(sp, i, v)}) = 1

C11_SegmentsDisjoint ==
    \A sp \in Spaces : \A i, j \in 1 .. Len(segments[sp]) :
      i # j => \A v \in VPages : ~(Covers(sp, i, v) /\ Covers(sp, j, v))


\* the interior slots <<table, index>> that hold a determined non-empty entry
\* and are reachable from table pt, which stands at level k
RECURSIVE InteriorSlots(_, _, _, _)
InteriorSlots(m, df, pt, k) ==
    IF k = Levels \/ pt \in df
    THEN {}
    ELSE UNION { IF is_empty(m[pt][i]) \/ m[pt][i] = Unknown
                 THEN {}
                 ELSE {<<pt, i>>} \cup InteriorSlots(m, df, m[pt][i].ppn, k + 1)
                 : i \in Slots }

\* the reachable interior slots of Mapping sp whose entry points to frame f
LinksTo(sp, f) ==
    {s \in InteriorSlots(mem, SegFrames(segments), page_tables[sp][1], 1) : mem[s[1]][s[2]].ppn = f}

(* C12: the table structure of every Mapping is a tree: every non-root     *)
(* table of page_tables is the target of exactly one Interior entry        *)
(* reachable from the root, the root is the target of none, and no frame   *)
(* is in the page_tables of two Mappings.                                  *)
C12_TableTree ==
    \A sp \in Spaces :
      Exists(sp) =>
        /\ \A j \in 2 .. Len(page_tables[sp]) : Cardinality(LinksTo(sp, page_tables[sp][j])) = 1
        /\ LinksTo(sp, page_tables[sp][1]) = {}
        /\ \A t \in Spaces :
             t # sp => SeqRange(page_tables[sp]) \cap SeqRange(page_tables[t]) = {}

\* this step is a map_linear / map_alloc call on sp over at least two pages
\* that returned an error
FailsOverSeveral(sp) ==
    /\ ncalls' = ncalls + 1
    /\ IsMapCall(last')
    /\ last'.sp = sp
    /\ last'.end >= last'.start + 2
    /\ last'.res # "Ok"

(* C13: a map_linear / map_alloc call over several pages that fails        *)
(* returns the error of the first page that failed, p; the pages after p   *)
(* are not attempted (a page that had no entry still has none), the        *)
(* segment list is unchanged, and the walk for every page before p ends in *)
(* the Leaf entry the call wrote for it.                                   *)
C13_AbortAtFirstFailure ==
    [][ \A sp \in Spaces, start \in VPages, n \in 0 .. NumPages :
          (FailsOverSeveral(sp) /\ last'.start = start /\ Len(last'.bound) = n) =>
            LET p == start + n
            IN /\ p < last'.end
               /\ last'.res \in {"ResourceExhausted", "MappingConflict"}
               /\ segments' = segments
               /\ \A q \in VPages :
                    (p < q /\ q < last'.end /\ Lookup(sp, q) = {Empty})
                      => Lookup(sp, q)' = {Empty}
               /\ \A j \in 1 .. n :
                    Lookup(sp, start + j - 1)'
                      = {PageTableEntry(last'.bound[j], last'.flags)} ]_vars

\* the table frames Mapping sp reaches through Interior entries
Linked(sp) == InteriorFrom(mem, SegFrames(segments), page_tables[sp][1], 1)

(* C14: the table nodes that a failed map_linear / map_alloc call linked   *)
(* into the tree (those reachable through Interior entries after the call  *)
(* and not before) are still allocated when the call has returned: none of *)
(* them is in the free pool.                                               *)
C14_FailedWalkKeepsFrames ==
    [][ \A sp \in Spaces :
          (/\ ncalls' = ncalls + 1
           /\ IsMapCall(last')
           /\ last'.sp = sp
           /\ last'.res # "Ok")
            => (Linked(sp)' \ Linked(sp)) \cap Free' = {} ]_vars

(* C15: when new_kernel fails, the calls it made (new, then the map_linear *)
(* calls in order) all succeeded except the last one, whose error is the   *)
(* result of new_kernel; no call was made after it, and no Mapping, partial *)
(* or otherwise, is left to the caller.                                    *)
C15_KernelBuilderAborts ==
    (last.op = "new_kernel" /\ last.res # "Ok")
      => LET log == last.bound IN
         /\ Len(log) \in 1 .. 6
         /\ \A i \in 1 .. (Len(log) - 1) : log[i] = "Ok"
         /\ log[Len(log)] = last.res
         /\ last.res \in {"ResourceExhausted", "MappingConflict"}
         /\ page_tables[last.sp] = <<>>
         /\ segments[last.sp] = <<>>

\* new_kernel failed in its third map_linear call, after two segments
C15_Witness ==
    /\ last.op = "new_kernel"
    /\ last.res = "ResourceExhausted"
    /\ last.bound = <<"Ok", "Ok", "Ok", "ResourceExhausted">>

\* new_kernel failed at the root allocation
C15_RootWitness ==
    /\ last.op = "new_kernel"
    /\ last.bound = <<"ResourceExhausted">>

\* the frames of the Framed segments of Mapping sp, segment after segment
RECURSIVE SegHandles(_, _)
SegHandles(sp, i) ==
    IF i > Len(segments[sp]) THEN <<>> ELSE segments[sp][i].frames \o SegHandles(sp, i + 1)

\* every frame handle of Mapping sp and of the thread working on it
Handles(sp) ==
    page_tables[sp] \o SegHandles(sp, 1) \o thread[sp].nt
      \o (IF thread[sp].frame = 0 THEN <<>> ELSE <<thread[sp].frame>>)
      \o thread[sp].held \o thread[sp].drop

RECURSIVE AllHandles(_)
AllHandles(sp) == IF sp > NumSpaces THEN <<>> ELSE Handles(sp) \o AllHandles(sp + 1)

\* the pcs at which a thread is inside FRAME_ALLOCATOR.lock()
InLock == {"new_alloc", "frame_alloc", "table_alloc", "drop_free"}

(* C16: under every interleaving of the steps of threads on different      *)
(* Mappings, a thread is inside the allocator lock only for one alloc()    *)
(* (or one dealloc), never at the head of the page loop or during the      *)
(* walk, and every allocated frame has exactly one owner: no frame has two *)
(* handles (as a table of page_tables, a frame of a segment, or a handle a *)
(* call in progress holds) and no frame that has a handle is free.         *)
C16_OneOwnerPerFrame ==
    /\ \A t \in Spaces : lock = t <=> thread[t].pc \in InLock
    /\ \A i, j \in 1 .. Len(AllHandles(1)) :
         i # j => AllHandles(1)[i] # AllHandles(1)[j]
    /\ SeqRange(AllHandles(1)) \cap Free = {}

\* thread t stands between two pages of its call while thread u, which has
\* already taken a table in its own call, is inside the lock for the next
C16_Witness ==
    \E t, u \in Spaces :
      /\ t # u
      /\ thread[t].pc = "loop"
      /\ thread[t].start < thread[t].vpn
      /\ thread[t].vpn < thread[t].end
      /\ lock = u
      /\ thread[u].pc = "table_alloc"
      /\ thread[u].nt # <<>>

(* C17: every call a thread has begun eventually returns (the thread is    *)
(* idle again), under fair scheduling of the threads: no thread waits      *)
(* forever for the allocator lock, and no state is reached in which a      *)
(* call can make no step.                                                  *)
C17_CallsComplete ==
    \A t \in Spaces : (thread[t].pc # "idle") ~> (thread[t].pc = "idle")

\* a thread waits for the allocator lock while another thread is inside
C17_Witness ==
    \E t \in Spaces :
      /\ thread[t].pc \in {"new_lock", "frame_lock", "table_lock", "drop_lock"}
      /\ lock # 0
      /\ lock # t

IsPrefix(a, b) == Len(a) <= Len(b) /\ SubSeq(b, 1, Len(a)) = a

\* this step is a map_linear / map_alloc call on sp over the one page v
MapsOnly(sp, v) == MapsFirst(sp, v) /\ last'.end = v + 1

(* C18: page_tables changes only by appending: what it held stays, in      *)
(* place, the root first; new() creates it with the root alone. A walk     *)
(* that succeeds appends exactly the tables it allocated (the frames that  *)
(* left the free pool, the page's own frame aside), in creation order: the *)
(* table linked from the root before the table linked from that one. A     *)
(* walk that fails leaves page_tables as it was.                           *)
C18_PageTablesAppendOnly ==
    [][ \A sp \in Spaces :
          /\ Exists(sp) => IsPrefix(page_tables[sp], page_tables'[sp])
          /\ (~Exists(sp) /\ Exists(sp)') => Len(page_tables'[sp]) = 1
          /\ \A v \in VPages :
               MapsOnly(sp, v) =>
                 LET old == page_tables[sp]
                     new_tables == SubSeq(page_tables'[sp], Len(old) + 1, Len(page_tables'[sp]))
                     taken == (Free \ Free')
                                \ (IF last'.op = "map_alloc" THEN SeqRange(last'.bound) ELSE {})
                 IN IF last'.res = "Ok"
                    THEN /\ SeqRange(new_tables) = taken
                         /\ Len(new_tables) = Cardinality(taken)
                         /\ Len(new_tables) = 2 =>
                              /\ mem'[old[1]][levels(v)[1]] = PageTableEntry(new_tables[1], VALID)
                              /\ mem'[new_tables[1]][levels(v)[2]]
                                   = PageTableEntry(new_tables[2], VALID)
                    ELSE page_tables'[sp] = old ]_vars

\* the first walk of a Mapping succeeded and appended both interior tables
C18_Witness ==
    /\ IsMapCall(last)
    /\ last.res = "Ok"
    /\ last.end = last.start + 1
    /\ nmaps[last.sp] = 1
    /\ Len(page_tables[last.sp]) = 3

\* the slot of table node pt holds an entry this code wrote or zeroed
Determined(pt, i) == pt \notin SegFrames(segments) /\ mem[pt][i] # Unknown

\* the entries on the path of page v in Mapping sp are of the kind of their
\* level: valid-only Interior entries at the first two levels, and at the
\* third a Leaf with flags a caller passed and the physical page bound to v
PathWellFormed(sp, v) ==
    LET l == levels(v)
        e1 == mem[page_tables[sp][1]][l[1]]
        e2 == mem[e1.ppn][l[2]]
        e3 == mem[e2.ppn][l[3]]
    IN (Determined(page_tables[sp][1], l[1]) /\ ~is_empty(e1)) =>
         /\ e1.flags = VALID
         /\ (Determined(e1.ppn, l[2]) /\ ~is_empty(e2)) =>
              /\ e2.flags = VALID
              /\ (Determined(e2.ppn, l[3]) /\ ~is_empty(e3)) =>
                   /\ e3.flags \in FlagChoices
                   /\ e3.ppn = LinearPpn(v) \/ <<sp, v, e3.ppn>> \in alloc_leaves

(* C19: in every reachable state every non-empty entry of a first- or      *)
(* second-level table is an Interior entry with the valid marker alone,    *)
(* and every non-empty entry of a third-level table is a Leaf with the     *)
(* physical page and flags passed to the walk that wrote it; a walk that   *)
(* finds the terminal slot occupied fails with MappingConflict and leaves  *)
(* the slot as it was.                                                     *)
C19_EntryKinds ==
    /\ [](\A sp \in Spaces : Exists(sp) => \A v \in VPages : PathWellFormed(sp, v))
    /\ [][ \A sp \in Spaces, v \in VPages :
             (HasLeaf(sp, v) /\ MapsFirst(sp, v) /\ last'.op = "map_linear")
               => /\ last'.res = "MappingConflict"
                  /\ LeafOf(sp, v)' = LeafOf(sp, v) ]_vars

(* C20: no step clears or overwrites a non-empty table entry of a Mapping  *)
(* or removes or alters a recorded Segment: the Interior entries reachable *)
(* from the root stay as they are, a page that has a Leaf entry keeps it   *)
(* with the same physical page and flags, and the segment list is only     *)
(* appended to.                                                            *)
C20_AppendOnly ==
    [][ \A sp \in Spaces :
          Exists(sp) =>
            /\ IsPrefix(segments[sp], segments'[sp])
            /\ \A sl \in InteriorSlots(mem, SegFrames(segments), page_tables[sp][1], 1) :
                 mem'[sl[1]][sl[2]] = mem[sl[1]][sl[2]]
            /\ \A v \in VPages :
                 HasLeaf(sp, v) => (HasLeaf(sp, v)' /\ LeafOf(sp, v)' = LeafOf(sp, v)) ]_vars

====
